---- MODULE Spec2Model ----
(***************************************************************************)
(* Model of core/unit_test/TestLocalDeepCopy.hpp: the local_deep_copy      *)
(* tests of Kokkos (team policy, range policy, scratch memory).            *)
(*                                                                         *)
(* The kernels, the chunk arithmetic, the subview selection and the host   *)
(* side checks are translated from the test source.  The primitives the    *)
(* kernels call (local_deep_copy*, TeamThreadRange, team barrier, the      *)
(* layout mapping of a View) live outside that file and are modelled from  *)
(* the design document.                                                    *)
(***************************************************************************)
EXTENDS Integers, Sequences, FiniteSets, TLC

(***************************************************************************)
(* Bounds of the model.                                                    *)
(***************************************************************************)
MaxN == 2          \* extents N of the rank tests range over 1..MaxN
MaxRank == 3       \* view ranks of the rank tests range over 2..MaxRank
MaxSpan == 8       \* only views with N^rank <= MaxSpan are built
MaxTeam == 3       \* team sizes picked by Kokkos::AUTO range over 1..MaxTeam
MaxLanes == 6      \* a dispatch has at most MaxLanes lanes (league x team)
MaxScratchN == 3   \* extent N of the scratch test ranges over 1..MaxScratchN
MaxChunkN == 8     \* the chunk arithmetic is checked for extents 1..MaxChunkN
MaxOffsetN == 3    \* the layout mapping is checked for extents 1..MaxOffsetN

VARIABLES
    test,          \* which TEST body runs
    shapes,        \* how dst and src of a contract-violating copy differ
    N,             \* extent of every dimension (TestLocalDeepCopyRank::N, N_)
    rank,          \* ViewType::rank of A and B
    layout,        \* "LayoutLeft" or "LayoutRight"
    team_size,     \* lanes per team (Kokkos::AUTO)
    thread_range,  \* how TeamThreadRange splits its iterations over lanes
    vector_range,  \* how a team-scoped copy/fill splits the flat index space
    A, B,          \* A.data(), B.data(): flat storage
    shview,        \* team scratch view of the scratch functor (N_ x 1)
    check_view_1,  \* first result view of the scratch functor
    check_view_2,  \* second result view of the scratch functor
    hostpc,        \* host statement being executed
    running,       \* a kernel has been launched and has not completed
    calls,         \* per (league rank, team rank): the calls of the kernel body
    lanes,         \* per (league rank, team rank): position in the kernel
    writers,       \* history: per view element, the calls that wrote it
    passed         \* conjunction of the ASSERTs evaluated so far

vars == <<test, shapes, N, rank, layout, team_size, thread_range, vector_range,
          A, B, shview, check_view_1, check_view_2,
          hostpc, running, calls, lanes, writers, passed>>

----------------------------------------------------------------------------
(***************************************************************************)
(* Arithmetic helpers.                                                     *)
(***************************************************************************)
RECURSIVE Pow(_, _)
Pow(b, e) == IF e = 0 THEN 1 ELSE b * Pow(b, e - 1)

Min(a, b) == IF a < b THEN a ELSE b

Max(a, b) == IF a < b THEN b ELSE a

\* Kokkos::clamp(value, lo, hi)
clamp(value, lo, hi) == IF value < lo THEN lo ELSE IF hi < value THEN hi ELSE value

RECURSIVE SumSeq(_)
SumSeq(s) == IF Len(s) = 0 THEN 0 ELSE Head(s) + SumSeq(Tail(s))

RECURSIVE ProdSeq(_)
ProdSeq(s) == IF Len(s) = 0 THEN 1 ELSE Head(s) * ProdSeq(Tail(s))

Layouts == {"LayoutLeft", "LayoutRight"}

Partitions == {"chunked", "strided"}

fill_value == 20

----------------------------------------------------------------------------
(***************************************************************************)
(* Views: extents, layout mapping, subviews, the element-space walk.       *)
(***************************************************************************)

\* make_array<int, Rank>(N): the extents view_create passes to the View
make_array(value, Rank) == [d \in 1..Rank |-> value]

\* Mutant of offset: the stride of a LayoutRight dimension includes the
\* dimension's own extent
offset_right_stride_own_extent(lay, extents, idx) ==
    LET R == Len(extents)
        stride(d) == IF lay = "LayoutLeft"
                     THEN ProdSeq(SubSeq(extents, 1, d - 1))
                     ELSE ProdSeq(SubSeq(extents, d, R))
    IN  SumSeq([d \in 1..R |-> idx[d] * stride(d)])

\* Linear Layout Mapper: LayoutLeft varies the first index fastest,
\* LayoutRight the last one.  idx holds 0-based indices.
offset(lay, extents, idx) ==
    LET R == Len(extents)
        stride(d) == IF lay = "LayoutLeft"
                     THEN ProdSeq(SubSeq(extents, 1, d - 1))
                     ELSE ProdSeq(SubSeq(extents, d + 1, R))
    IN  SumSeq([d \in 1..R |-> idx[d] * stride(d)])

\* view.span() of a view built by view_create
span(extents) == ProdSeq(extents)

\* Subview selectors: a fixed index, a half-open range, Kokkos::ALL
At(i) == [kind |-> "index", at |-> i, lo |-> i, hi |-> i + 1]

make_pair(start, stop) == [kind |-> "range", at |-> 0, lo |-> start, hi |-> stop]

ALL == [kind |-> "all", at |-> 0, lo |-> 0, hi |-> 0]

\* Kokkos::subview(view, selectors...): a view aliasing the parent's
\* storage; the dimensions selected by a fixed index are dropped.
subview(extents, lay, sels) ==
    LET kept(d) == sels[d].kind # "index"
        dims    == SelectSeq([d \in 1..Len(extents) |-> d], kept)
    IN  [ parent  |-> extents,
          lay     |-> lay,
          sels    |-> sels,
          dims    |-> dims,
          extents |-> [j \in 1..Len(dims) |->
                          IF sels[dims[j]].kind = "all"
                          THEN extents[dims[j]]
                          ELSE Max(sels[dims[j]].hi - sels[dims[j]].lo, 0)] ]

\* Mutant of extract_subview: the bounds are dropped and the whole slice
\* is selected
extract_subview_ignore_bounds(extents, lay, lid, bounds) ==
    subview(extents, lay,
            <<At(lid), ALL>> \o make_array(ALL, Len(extents) - 2))

\* Mutant of extract_subview: the league rank is dropped and every
\* invocation selects slice 0
extract_subview_first_slice(extents, lay, lid, bounds) ==
    subview(extents, lay,
            <<At(0), bounds>> \o make_array(ALL, Len(extents) - 2))

\* extract_subview(src, lid, bounds): Kokkos::subview(src, lid, bounds,
\* ALL, ..., ALL) with Rank - 2 trailing ALLs
extract_subview(extents, lay, lid, bounds) ==
    subview(extents, lay,
            <<At(lid), bounds>> \o make_array(ALL, Len(extents) - 2))

\* The parent index tuple of element idx of a subview
ParentIndex(sv, idx) ==
    [d \in 1..Len(sv.parent) |->
        IF sv.sels[d].kind = "index" THEN sv.sels[d].at
        ELSE LET j == CHOOSE i \in 1..Len(sv.dims) : sv.dims[i] = d
             IN  (IF sv.sels[d].kind = "all" THEN 0 ELSE sv.sels[d].lo) + idx[j]]

\* Storage offset (in the parent's data()) of element idx of a subview
SubviewOffset(sv, idx) == offset(sv.lay, sv.parent, ParentIndex(sv, idx))

\* Flat index k (0-based) of an index space -> index tuple, first index fastest
Unflatten(k, extents) ==
    [d \in 1..Len(extents) |->
        (k \div ProdSeq(SubSeq(extents, 1, d - 1))) % extents[d]]

\* Element-Space Walk: the storage offsets of every element of the subview,
\* in the order of the flat index
ElementSpaceWalk(sv) ==
    [k \in 1..ProdSeq(sv.extents) |->
        SubviewOffset(sv, Unflatten(k - 1, sv.extents))]

----------------------------------------------------------------------------
(***************************************************************************)
(* Splitting n iterations 0..n-1 over the lanes of a team.                 *)
(***************************************************************************)

\* Mutant of LaneShare: the chunk length is rounded down
LaneShare_floor(scheme, n, T, r) ==
    IF scheme = "chunked"
    THEN LET chunk == n \div T
             lo    == Min(n, r * chunk)
             hi    == Min(n, lo + chunk)
         IN  [j \in 1..(hi - lo) |-> lo + j - 1]
    ELSE LET cnt == IF r < n THEN (n - r + T - 1) \div T ELSE 0
         IN  [j \in 1..cnt |-> r + (j - 1) * T]

\* Iterations of lane r out of T: contiguous chunks of ceil(n/T), or a
\* stride of T starting at r.
LaneShare(scheme, n, T, r) ==
    IF scheme = "chunked"
    THEN LET chunk == (n + T - 1) \div T
             lo    == Min(n, r * chunk)
             hi    == Min(n, lo + chunk)
         IN  [j \in 1..(hi - lo) |-> lo + j - 1]
    ELSE LET cnt == IF r < n THEN (n - r + T - 1) \div T ELSE 0
         IN  [j \in 1..cnt |-> r + (j - 1) * T]

\* Kokkos::TeamThreadRange(team, n)
TeamThreadRange(n, r) == LaneShare(thread_range, n, team_size, r)

\* The range a team-scoped copy or fill splits its flat index space with
TeamVectorRange(n, r) == LaneShare(vector_range, n, team_size, r)

\* s restricted to the 0-based positions listed in share
Pick(s, share) == [j \in 1..Len(share) |-> s[share[j] + 1]]

----------------------------------------------------------------------------
(***************************************************************************)
(* The local deep-copy primitives.  A call is described by the storage     *)
(* offsets the calling lane writes (dst) and reads (src), in the order of  *)
(* its walk, by the offsets of the whole destination view (whole) and by   *)
(* the extents of its two views (dext, sext; ok: they are compatible).  A  *)
(* team-scoped call gives each lane its share of the walk and ends with a  *)
(* team barrier.                                                           *)
(***************************************************************************)

\* Mutant of ShapeCompatible: only the ranks are compared
ShapeCompatible_rank_only(subDst, subSrc) ==
    Len(subDst.extents) = Len(subSrc.extents)

\* dst and src of a copy are shape-compatible: equal rank and equal extent
\* in every dimension
ShapeCompatible(subDst, subSrc) == subDst.extents = subSrc.extents

\* Offsets read by a copy: the source element at each index tuple of the
\* destination's index space (none when the ranks differ: the index tuples
\* of dst do not index src)
SourceWalk(subDst, subSrc) ==
    IF Len(subDst.extents) = Len(subSrc.extents)
    THEN [k \in 1..ProdSeq(subDst.extents) |->
             SubviewOffset(subSrc, Unflatten(k - 1, subDst.extents))]
    ELSE << >>

\* local_deep_copy_thread(teamMember, dst, src): the whole walk on the
\* calling lane, no barrier
local_deep_copy_thread(dstv, subDst, srcv, subSrc) ==
    [ scope |-> "thread", name |-> "copy_thread",
      dstv |-> dstv, dst |-> ElementSpaceWalk(subDst),
      whole |-> ElementSpaceWalk(subDst),
      srcv |-> srcv, src |-> SourceWalk(subDst, subSrc), value |-> 0,
      ok |-> ShapeCompatible(subDst, subSrc),
      dext |-> subDst.extents, sext |-> subSrc.extents ]

\* local_deep_copy(dst, src): the whole walk in the calling iteration
local_deep_copy(dstv, subDst, srcv, subSrc) ==
    [ scope |-> "unscoped", name |-> "copy",
      dstv |-> dstv, dst |-> ElementSpaceWalk(subDst),
      whole |-> ElementSpaceWalk(subDst),
      srcv |-> srcv, src |-> SourceWalk(subDst, subSrc), value |-> 0,
      ok |-> ShapeCompatible(subDst, subSrc),
      dext |-> subDst.extents, sext |-> subSrc.extents ]

\* local_deep_copy(dst, value): fill in the calling iteration
local_deep_copy_scalar(dstv, subDst, value) ==
    [ scope |-> "unscoped", name |-> "fill",
      dstv |-> dstv, dst |-> ElementSpaceWalk(subDst),
      whole |-> ElementSpaceWalk(subDst),
      srcv |-> "scalar", src |-> <<>>, value |-> value, ok |-> TRUE,
      dext |-> subDst.extents, sext |-> subDst.extents ]

\* local_deep_copy(team, dst, src) as executed by lane r: its share of the
\* flat index space of dst, then the team barrier
local_deep_copy_team(name, r, dstv, subDst, srcv, subSrc) ==
    LET share == TeamVectorRange(ProdSeq(subDst.extents), r)
    IN  [ scope |-> "team", name |-> name,
          dstv |-> dstv, dst |-> Pick(ElementSpaceWalk(subDst), share),
          whole |-> ElementSpaceWalk(subDst),
          srcv |-> srcv,
          src |-> IF Len(subDst.extents) = Len(subSrc.extents)
                  THEN Pick(SourceWalk(subDst, subSrc), share) ELSE << >>,
          value |-> 0,
          ok |-> ShapeCompatible(subDst, subSrc),
      dext |-> subDst.extents, sext |-> subSrc.extents ]

\* local_deep_copy(team, dst, value) as executed by lane r
local_deep_copy_team_scalar(name, r, dstv, subDst, value) ==
    LET share == TeamVectorRange(ProdSeq(subDst.extents), r)
    IN  [ scope |-> "team", name |-> name,
          dstv |-> dstv, dst |-> Pick(ElementSpaceWalk(subDst), share),
          whole |-> ElementSpaceWalk(subDst),
          srcv |-> "scalar", src |-> <<>>, value |-> value, ok |-> TRUE,
      dext |-> subDst.extents, sext |-> subDst.extents ]

----------------------------------------------------------------------------
(***************************************************************************)
(* The kernels of the tests: the calls one lane (league rank lid, team     *)
(* rank r) makes, in order.                                                *)
(***************************************************************************)

\* Extents of A and B (view_create)
Extents == make_array(N, rank)

\* team_policy(N, Kokkos::AUTO); the scratch test uses a league of one team
league_size == IF test = "scratch" THEN 1 ELSE N

\* Mutant of units_of_work: the quotient is always rounded up by one
units_of_work_round_always(n, thread_number) == n \div thread_number + 1

\* test_local_deepcopy_thread: units of work per thread for extent n and
\* league size thread_number: n / thread_number, plus one if there is a
\* remainder
units_of_work(n, thread_number) ==
    LET u == n \div thread_number
    IN  IF n % thread_number # 0 THEN u + 1 ELSE u

\* Mutant of number_of_batches: the quotient is rounded up
number_of_batches_ceil(n, thread_number) ==
    (n + units_of_work(n, thread_number) - 1)
        \div units_of_work(n, thread_number)

\* numberOfBatches = N / unitsOfWork (integer division)
number_of_batches(n, thread_number) == n \div units_of_work(n, thread_number)

\* start = idx * unitsOfWork
chunk_start(n, thread_number, idx) == idx * units_of_work(n, thread_number)

\* The computed upper bound: stop = (idx + 1) * unitsOfWork
chunk_stop_computed(n, thread_number, idx) ==
    (idx + 1) * units_of_work(n, thread_number)

\* stop = Kokkos::clamp(stop, 0, N)
chunk_stop(n, thread_number, idx) ==
    clamp(chunk_stop_computed(n, thread_number, idx), 0, n)

\* The values of the running dispatch: thread_number = league_size()
unitsOfWork == units_of_work(N, league_size)

numberOfBatches == number_of_batches(N, league_size)

\* Mutant of thread_copy_chunk: the upper bound is one chunk too far
thread_copy_chunk_overlap(lid, indexWithinBatch) ==
    LET idx    == indexWithinBatch
        start  == idx * unitsOfWork
        stop   == clamp((idx + 2) * unitsOfWork, 0, N)
        subSrc == extract_subview(Extents, layout, lid, make_pair(start, stop))
        subDst == extract_subview(Extents, layout, lid, make_pair(start, stop))
    IN  local_deep_copy_thread("B", subDst, "A", subSrc)

\* Body of the TeamThreadRange lambda of test_local_deepcopy_thread
thread_copy_chunk(lid, indexWithinBatch) ==
    LET idx    == indexWithinBatch
        start  == chunk_start(N, league_size, idx)
        stop   == chunk_stop(N, league_size, idx)
        subSrc == extract_subview(Extents, layout, lid, make_pair(start, stop))
        subDst == extract_subview(Extents, layout, lid, make_pair(start, stop))
    IN  local_deep_copy_thread("B", subDst, "A", subSrc)

test_local_deepcopy_thread(lid, r) ==
    LET mine == TeamThreadRange(numberOfBatches, r)
    IN  [j \in 1..Len(mine) |-> thread_copy_chunk(lid, mine[j])]

test_local_deepcopy(lid, r) ==
    LET subSrc == extract_subview(Extents, layout, lid, ALL)
        subDst == extract_subview(Extents, layout, lid, ALL)
    IN  << local_deep_copy_team("copy", r, "B", subDst, "A", subSrc) >>

test_local_deepcopy_range(lid) ==
    LET subSrc == extract_subview(Extents, layout, lid, ALL)
        subDst == extract_subview(Extents, layout, lid, ALL)
    IN  << local_deep_copy("B", subDst, "A", subSrc) >>

\* Mutant of test_local_deepcopy_scalar: the slice is cut one short
test_local_deepcopy_scalar_short(lid, r) ==
    LET subDst == extract_subview(Extents, layout, lid, make_pair(0, N - 1))
    IN  << local_deep_copy_team_scalar("fill", r, "B", subDst, fill_value) >>

test_local_deepcopy_scalar(lid, r) ==
    LET subDst == extract_subview(Extents, layout, lid, ALL)
    IN  << local_deep_copy_team_scalar("fill", r, "B", subDst, fill_value) >>

\* Mutant of test_local_deepcopy_scalar_range: iteration lid fills the
\* slice after its own
test_local_deepcopy_scalar_range_next_slice(lid) ==
    LET subDst == extract_subview(Extents, layout, (lid + 1) % N, ALL)
    IN  << local_deep_copy_scalar("B", subDst, fill_value) >>

test_local_deepcopy_scalar_range(lid) ==
    LET subDst == extract_subview(Extents, layout, lid, ALL)
    IN  << local_deep_copy_scalar("B", subDst, fill_value) >>

\* Value the scratch functor fills the whole scratch view with
scratch_fill == 6

\* Mutant of DeepCopyScratchFunctor: only team rank 0 issues the
\* team-scoped fill
DeepCopyScratchFunctor_fill_on_rank_0(r) ==
    LET shext  == <<N, 1>>
        whole  == subview(shext, "LayoutRight", <<ALL, ALL>>)
        col0   == subview(shext, "LayoutRight", <<ALL, At(0)>>)
        check  == subview(<<N>>, "LayoutRight", <<ALL>>)
        mine   == TeamThreadRange(N, r)
        row(index) == subview(shext, "LayoutRight", <<At(index), ALL>>)
    IN  [j \in 1..Len(mine) |->
            local_deep_copy_scalar("shview", row(mine[j]), mine[j])]
        \o << local_deep_copy_team("copy_1", r, "check_view_1", check,
                                   "shview", col0) >>
        \o (IF r = 0
            THEN << local_deep_copy_team_scalar("fill", r, "shview", whole,
                                                scratch_fill) >>
            ELSE << >>)
        \o << local_deep_copy_team("copy_2", r, "check_view_2", check,
                                   "shview", col0) >>

\* Mutant of DeepCopyScratchFunctor: the team-scoped fill is issued before
\* the first copy
DeepCopyScratchFunctor_fill_before_copy(r) ==
    LET shext  == <<N, 1>>
        whole  == subview(shext, "LayoutRight", <<ALL, ALL>>)
        col0   == subview(shext, "LayoutRight", <<ALL, At(0)>>)
        check  == subview(<<N>>, "LayoutRight", <<ALL>>)
        mine   == TeamThreadRange(N, r)
        row(index) == subview(shext, "LayoutRight", <<At(index), ALL>>)
    IN  [j \in 1..Len(mine) |->
            local_deep_copy_scalar("shview", row(mine[j]), mine[j])]
        \o << local_deep_copy_team_scalar("fill", r, "shview", whole,
                                          scratch_fill),
              local_deep_copy_team("copy_1", r, "check_view_1", check,
                                   "shview", col0),
              local_deep_copy_team("copy_2", r, "check_view_2", check,
                                   "shview", col0) >>

\* Mutant of DeepCopyScratchFunctor: the second copy is issued before the
\* team-scoped fill
DeepCopyScratchFunctor_copy_before_fill(r) ==
    LET shext  == <<N, 1>>
        whole  == subview(shext, "LayoutRight", <<ALL, ALL>>)
        col0   == subview(shext, "LayoutRight", <<ALL, At(0)>>)
        check  == subview(<<N>>, "LayoutRight", <<ALL>>)
        mine   == TeamThreadRange(N, r)
        row(index) == subview(shext, "LayoutRight", <<At(index), ALL>>)
    IN  [j \in 1..Len(mine) |->
            local_deep_copy_scalar("shview", row(mine[j]), mine[j])]
        \o << local_deep_copy_team("copy_1", r, "check_view_1", check,
                                   "shview", col0),
              local_deep_copy_team("copy_2", r, "check_view_2", check,
                                   "shview", col0),
              local_deep_copy_team_scalar("fill", r, "shview", whole,
                                          scratch_fill) >>

\* DeepCopyScratchFunctor::operator() as executed by lane r
DeepCopyScratchFunctor(r) ==
    LET shext  == <<N, 1>>
        whole  == subview(shext, "LayoutRight", <<ALL, ALL>>)
        col0   == subview(shext, "LayoutRight", <<ALL, At(0)>>)
        check  == subview(<<N>>, "LayoutRight", <<ALL>>)
        mine   == TeamThreadRange(N, r)
        row(index) == subview(shext, "LayoutRight", <<At(index), ALL>>)
    IN  [j \in 1..Len(mine) |->
            local_deep_copy_scalar("shview", row(mine[j]), mine[j])]
        \o << local_deep_copy_team("copy_1", r, "check_view_1", check,
                                   "shview", col0),
              local_deep_copy_team_scalar("fill", r, "shview", whole,
                                          scratch_fill),
              local_deep_copy_team("copy_2", r, "check_view_2", check,
                                   "shview", col0) >>

\* A copy whose dst and src are not shape-compatible, as a caller breaking
\* the contract would issue it on slice lid: dst one element shorter than
\* src, src one element shorter than dst, or src of a higher rank
ViolatingViews(lid) ==
    CASE shapes = "dst_short" ->
            [ dst |-> extract_subview(Extents, layout, lid, make_pair(0, N - 1)),
              src |-> extract_subview(Extents, layout, lid, ALL) ]
      [] shapes = "src_short" ->
            [ dst |-> extract_subview(Extents, layout, lid, ALL),
              src |-> extract_subview(Extents, layout, lid, make_pair(0, N - 1)) ]
      [] shapes = "src_rank" ->
            [ dst |-> extract_subview(Extents, layout, lid, ALL),
              src |-> subview(Extents, layout, make_array(ALL, rank)) ]

\* Kernel body issuing the contract-violating copy in the scope under test
contract_violation(lid, r) ==
    LET v == ViolatingViews(lid)
    IN  CASE test = "violation_thread" ->
                [j \in 1..Len(TeamThreadRange(1, r)) |->
                    local_deep_copy_thread("B", v.dst, "A", v.src)]
          [] test = "violation_team" ->
                << local_deep_copy_team("copy", r, "B", v.dst, "A", v.src) >>
          [] test = "violation_range" ->
                << local_deep_copy("B", v.dst, "A", v.src) >>

\* Host statements of the three kinds of TEST bodies
run_team_policy ==
    << "test_local_deepcopy_thread", "reset_b", "test_local_deepcopy",
       "reset_b", "test_local_deepcopy_scalar" >>

run_range_policy ==
    << "test_local_deepcopy_range", "reset_b",
       "test_local_deepcopy_scalar_range" >>

deep_copy_scratch == << "DeepCopyScratchFunctor" >>

Program ==
    CASE test = "team_policy"  -> run_team_policy
      [] test = "range_policy" -> run_range_policy
      [] test = "scratch"      -> deep_copy_scratch
      [] OTHER                 -> << "contract_violation" >>

\* The host statement being executed; hostpc 0 stands for the process
\* having been aborted
Stmt ==
    IF hostpc = 0 THEN "aborted"
    ELSE IF hostpc <= Len(Program) THEN Program[hostpc] ELSE "done"

\* The calls of lane <<lid, r>> in the kernel of host statement stmt
KernelCalls(stmt, lid, r) ==
    CASE stmt = "test_local_deepcopy_thread"       -> test_local_deepcopy_thread(lid, r)
      [] stmt = "test_local_deepcopy"              -> test_local_deepcopy(lid, r)
      [] stmt = "test_local_deepcopy_scalar"       -> test_local_deepcopy_scalar(lid, r)
      [] stmt = "test_local_deepcopy_range"        -> test_local_deepcopy_range(lid)
      [] stmt = "test_local_deepcopy_scalar_range" -> test_local_deepcopy_scalar_range(lid)
      [] stmt = "DeepCopyScratchFunctor"           -> DeepCopyScratchFunctor(r)
      [] stmt = "contract_violation"               -> contract_violation(lid, r)
      [] OTHER                                     -> << >>

\* Lanes of the dispatch: (league rank, team rank)
LaneIds == (0..(league_size - 1)) \X (0..(team_size - 1))

\* The calls the kernel body makes on lane l
Calls(l) == calls[l]

----------------------------------------------------------------------------
(***************************************************************************)
(* State machine.                                                          *)
(***************************************************************************)

\* Contents an uninitialised scratch element may hold
Garbage == {-1, 0}

\* Mutant of view_init: view.data()[i] = i + 1
view_init_from_one(extents) == [i \in 0..(span(extents) - 1) |-> i + 1]

\* view_init: view.data()[i] = i over view.span()
view_init(extents) == [i \in 0..(span(extents) - 1) |-> i]

\* A freshly constructed Kokkos::View is zero-initialised; reset_b stores 0
Zeros(extents) == [i \in 0..(span(extents) - 1) |-> 0]

NoWriters(n) == [i \in 0..(n - 1) |-> {}]

Idle == [pc |-> "idle", k |-> 0, pos |-> 0]

Done == [pc |-> "done", k |-> 0, pos |-> 0]

InitRank ==
    /\ test \in {"team_policy", "range_policy"}
    /\ shapes = "same"
    /\ N \in 1..MaxN
    /\ rank \in 2..MaxRank
    /\ Pow(N, rank) <= MaxSpan
    /\ layout \in Layouts
    /\ IF test = "team_policy"
       THEN /\ team_size \in 1..MaxTeam
            /\ N * team_size <= MaxLanes
            /\ thread_range \in Partitions
            /\ vector_range \in Partitions
       ELSE /\ team_size = 1
            /\ thread_range = "chunked"
            /\ vector_range = "chunked"
    /\ A = view_init(Extents)
    /\ B = Zeros(Extents)
    /\ shview = << >>
    /\ check_view_1 = << >>
    /\ check_view_2 = << >>
    /\ writers = [B |-> NoWriters(span(Extents)), shview |-> << >>,
                  check_view_1 |-> << >>, check_view_2 |-> << >>]

InitScratch ==
    /\ test = "scratch"
    /\ shapes = "same"
    /\ N \in 1..MaxScratchN
    /\ rank = 2
    /\ layout = "LayoutRight"
    /\ team_size \in 1..MaxTeam
    /\ thread_range \in Partitions
    /\ vector_range \in Partitions
    /\ A = << >>
    /\ B = << >>
    /\ shview \in [0..(N - 1) -> Garbage]
    /\ check_view_1 = Zeros(<<N>>)
    /\ check_view_2 = Zeros(<<N>>)
    /\ writers = [B |-> << >>, shview |-> NoWriters(N),
                  check_view_1 |-> NoWriters(N), check_view_2 |-> NoWriters(N)]

InitViolation ==
    /\ test \in {"violation_thread", "violation_team", "violation_range"}
    /\ shapes \in {"dst_short", "src_short", "src_rank"}
    /\ N \in 1..MaxN
    /\ rank \in 2..MaxRank
    /\ Pow(N, rank) <= MaxSpan
    /\ layout \in Layouts
    /\ IF test = "violation_range"
       THEN team_size = 1
       ELSE team_size \in 1..MaxTeam /\ N * team_size <= MaxLanes
    /\ thread_range = "chunked"
    /\ vector_range \in (IF test = "violation_team"
                         THEN Partitions ELSE {"chunked"})
    /\ A = view_init(Extents)
    /\ B = Zeros(Extents)
    /\ shview = << >>
    /\ check_view_1 = << >>
    /\ check_view_2 = << >>
    /\ writers = [B |-> NoWriters(span(Extents)), shview |-> << >>,
                  check_view_1 |-> << >>, check_view_2 |-> << >>]

Init ==
    /\ InitRank \/ InitScratch \/ InitViolation
    /\ hostpc = 1
    /\ running = FALSE
    /\ calls = [l \in LaneIds |-> << >>]
    /\ lanes = [l \in LaneIds |-> Idle]
    /\ passed = TRUE

\* Current contents of the view named v
Mem(v) ==
    CASE v = "A"            -> A
      [] v = "B"            -> B
      [] v = "shview"       -> shview
      [] v = "check_view_1" -> check_view_1
      [] v = "check_view_2" -> check_view_2

\* Store value at offset off of the view named v
Store(v, off, value) ==
    /\ A' = IF v = "A" THEN [A EXCEPT ![off] = value] ELSE A
    /\ B' = IF v = "B" THEN [B EXCEPT ![off] = value] ELSE B
    /\ shview' = IF v = "shview" THEN [shview EXCEPT ![off] = value] ELSE shview
    /\ check_view_1' = IF v = "check_view_1"
                       THEN [check_view_1 EXCEPT ![off] = value] ELSE check_view_1
    /\ check_view_2' = IF v = "check_view_2"
                       THEN [check_view_2 EXCEPT ![off] = value] ELSE check_view_2

Kernels ==
    { "test_local_deepcopy_thread", "test_local_deepcopy",
      "test_local_deepcopy_scalar", "test_local_deepcopy_range",
      "test_local_deepcopy_scalar_range", "DeepCopyScratchFunctor",
      "contract_violation" }

\* The call lane l is executing
Cur(l) == Calls(l)[lanes[l].k]

\* Lane l has finished its part of the team-scoped call `name` (it waits
\* at that call's barrier or is past it)
Arrived(l, name) ==
    \E i \in 1..Len(Calls(l)) :
        /\ Calls(l)[i].scope = "team"
        /\ Calls(l)[i].name = name
        /\ \/ lanes[l].pc = "done"
           \/ lanes[l].k > i
           \/ lanes[l].k = i /\ lanes[l].pos = Len(Calls(l)[i].dst)

\* Mutant of team_barrier: a lane leaves as soon as it has arrived itself
team_barrier_no_wait(l, name) == Arrived(l, name)

\* team.team_barrier(): every lane of the team of l has arrived
team_barrier(l, name) ==
    \A l2 \in LaneIds : l2[1] = l[1] => Arrived(l2, name)

\* Lane l after returning from its current call
Advance(l) ==
    IF lanes[l].k < Len(Calls(l))
    THEN [pc |-> "call", k |-> lanes[l].k + 1, pos |-> 0]
    ELSE Done

\* parallel_for(policy, functor): every lane starts the kernel body
Launch ==
    /\ ~running
    /\ Stmt \in Kernels
    /\ running' = TRUE
    /\ calls' = [l \in LaneIds |-> KernelCalls(Stmt, l[1], l[2])]
    /\ lanes' = [l \in LaneIds |->
                    IF Len(calls'[l]) = 0 THEN Done
                    ELSE [pc |-> "call", k |-> 1, pos |-> 0]]
    /\ writers' = [v \in DOMAIN writers |->
                      [i \in DOMAIN writers[v] |-> {}]]
    /\ UNCHANGED <<test, shapes, N, rank, layout, team_size, thread_range,
                   vector_range, A, B, shview, check_view_1, check_view_2,
                   hostpc, passed>>

\* One element of the walk of lane l's current call: dst[i] = src[i] or
\* dst[i] = value
Element(l) ==
    /\ running
    /\ lanes[l].pc = "call"
    /\ Cur(l).ok
    /\ lanes[l].pos < Len(Cur(l).dst)
    /\ LET c   == Cur(l)
           i   == lanes[l].pos + 1
           off == c.dst[i]
           v   == IF c.srcv = "scalar" THEN c.value ELSE Mem(c.srcv)[c.src[i]]
       IN  /\ Store(c.dstv, off, v)
           /\ writers' = [writers EXCEPT ![c.dstv][off] =
                                @ \cup {<<l[1], l[2], lanes[l].k>>}]
    /\ lanes' = [lanes EXCEPT ![l].pos = @ + 1]
    /\ UNCHANGED <<test, shapes, N, rank, layout, team_size, thread_range,
                   vector_range, hostpc, running, calls, passed>>

\* Return from a thread-scoped or unscoped call: no barrier
Return(l) ==
    /\ running
    /\ lanes[l].pc = "call"
    /\ Cur(l).ok
    /\ Cur(l).scope # "team"
    /\ lanes[l].pos = Len(Cur(l).dst)
    /\ lanes' = [lanes EXCEPT ![l] = Advance(l)]
    /\ UNCHANGED <<test, shapes, N, rank, layout, team_size, thread_range,
                   vector_range, A, B, shview, check_view_1, check_view_2,
                   hostpc, running, calls, writers, passed>>

\* Return from a team-scoped call: after the trailing team barrier
TeamReturn(l) ==
    /\ running
    /\ lanes[l].pc = "call"
    /\ Cur(l).ok
    /\ Cur(l).scope = "team"
    /\ lanes[l].pos = Len(Cur(l).dst)
    /\ team_barrier(l, Cur(l).name)
    /\ lanes' = [lanes EXCEPT ![l] = Advance(l)]
    /\ UNCHANGED <<test, shapes, N, rank, layout, team_size, thread_range,
                   vector_range, A, B, shview, check_view_1, check_view_2,
                   hostpc, running, calls, writers, passed>>

\* A copy whose dst and src are not shape-compatible fails fast: the lane
\* entering the call aborts before it walks any element
Abort(l) ==
    /\ running
    /\ lanes[l].pc = "call"
    /\ ~Cur(l).ok
    /\ lanes' = [lanes EXCEPT ![l].pc = "aborted"]
    /\ UNCHANGED <<test, shapes, N, rank, layout, team_size, thread_range,
                   vector_range, A, B, shview, check_view_1, check_view_2,
                   hostpc, running, calls, writers, passed>>

\* The abort ends the process: no later host statement runs
Aborted ==
    /\ running
    /\ \A l \in LaneIds : lanes[l].pc \in {"done", "aborted"}
    /\ \E l \in LaneIds : lanes[l].pc = "aborted"
    /\ running' = FALSE
    /\ hostpc' = 0
    /\ passed' = FALSE
    /\ UNCHANGED <<test, shapes, N, rank, layout, team_size, thread_range,
                   vector_range, A, B, shview, check_view_1, check_view_2,
                   calls, lanes, writers>>

\* view_check_equals(lhs, rhs): logical and over lhs.span()
view_check_equals(lhs, rhs) ==
    \A i \in 0..(span(Extents) - 1) : lhs[i] = rhs[i]

\* check_sum(): sum of B against fill_value * N^rank
check_sum ==
    LET sum_all     == SumSeq([i \in 1..span(Extents) |-> B[i - 1]])
        correct_sum == fill_value * Pow(N, rank)
    IN  sum_all = correct_sum

\* The ASSERTs of TEST deep_copy_scratch
scratch_asserts ==
    \A i \in 0..(N - 1) :
        check_view_1[i] = i /\ check_view_2[i] = scratch_fill

\* The ASSERT that follows the kernel of host statement stmt
Assertion(stmt) ==
    CASE stmt \in {"test_local_deepcopy_thread", "test_local_deepcopy",
                   "test_local_deepcopy_range"}       -> view_check_equals(A, B)
      [] stmt \in {"test_local_deepcopy_scalar",
                   "test_local_deepcopy_scalar_range"} -> check_sum
      [] stmt = "DeepCopyScratchFunctor"              -> scratch_asserts
      [] OTHER                                        -> TRUE

AllDone == \A l \in LaneIds : lanes[l].pc = "done"

\* The kernel has completed; the host evaluates the ASSERT after it
Complete ==
    /\ running
    /\ AllDone
    /\ passed' = (passed /\ Assertion(Stmt))
    /\ running' = FALSE
    /\ hostpc' = hostpc + 1
    /\ calls' = [l \in LaneIds |-> << >>]
    /\ lanes' = [l \in LaneIds |-> Idle]
    /\ UNCHANGED <<test, shapes, N, rank, layout, team_size, thread_range,
                   vector_range, A, B, shview, check_view_1, check_view_2,
                   writers>>

\* Mutant of reset_b: the deep copy of 0 targets A instead of B
reset_b_clears_A ==
    /\ ~running
    /\ Stmt = "reset_b"
    /\ A' = Zeros(Extents)
    /\ hostpc' = hostpc + 1
    /\ UNCHANGED <<test, shapes, N, rank, layout, team_size, thread_range,
                   vector_range, B, shview, check_view_1, check_view_2,
                   running, calls, lanes, writers, passed>>

\* reset_b(): Kokkos::deep_copy(B, 0)
reset_b ==
    /\ ~running
    /\ Stmt = "reset_b"
    /\ B' = Zeros(Extents)
    /\ hostpc' = hostpc + 1
    /\ UNCHANGED <<test, shapes, N, rank, layout, team_size, thread_range,
                   vector_range, A, shview, check_view_1, check_view_2,
                   running, calls, lanes, writers, passed>>

Next ==
    \/ Launch
    \/ \E l \in LaneIds : Element(l)
    \/ \E l \in LaneIds : Return(l)
    \/ \E l \in LaneIds : TeamReturn(l)
    \/ \E l \in LaneIds : Abort(l)
    \/ Aborted
    \/ Complete
    \/ reset_b

Spec == Init /\ [][Next]_vars

\* Every lane a dispatch can have, over all configurations
AllLaneIds == (0..(Max(MaxN, 1) - 1)) \X (0..(MaxTeam - 1))

\* A step of lane l
LaneStep(l) ==
    /\ l \in LaneIds
    /\ Element(l) \/ Return(l) \/ TeamReturn(l) \/ Abort(l)

\* The execution space keeps running every lane that can take a step
FairSpec == Spec /\ \A l \in AllLaneIds : WF_vars(LaneStep(l))

----------------------------------------------------------------------------
(***************************************************************************)
(* Properties.                                                             *)
(***************************************************************************)

Range(f) == {f[x] : x \in DOMAIN f}

RankTest == test \in {"team_policy", "range_policy"}

CopyKernels ==
    { "test_local_deepcopy_thread", "test_local_deepcopy",
      "test_local_deepcopy_range" }

FillKernels ==
    { "test_local_deepcopy_scalar", "test_local_deepcopy_scalar_range" }

\* The kernel of one of the host statements stmts has completed and the host
\* has not yet executed the statement after its ASSERT
Completed(stmts) ==
    \/ running /\ AllDone /\ Stmt \in stmts
    \/ /\ ~running
       /\ hostpc > 1
       /\ hostpc - 1 <= Len(Program)
       /\ Program[hostpc - 1] \in stmts

\* C1: after each of the three copy kernels (thread-scoped over chunks,
\* team-scoped over slices, unscoped over slices of a flat range) has
\* completed, B.data()[i] = A.data()[i] for every flat index i of the span,
\* and the ASSERT on view_check_equals(A, B) passes, for every interleaving.
C1_CopyKernelsCopyEveryElement ==
    (RankTest /\ Completed(CopyKernels)) =>
        /\ \A i \in 0..(span(Extents) - 1) : B[i] = A[i]
        /\ view_check_equals(A, B)
        /\ passed

\* Both the thread-scoped and the team-scoped copy kernel have completed on
\* a view of rank 3 and extent 2
C1_Witness ==
    /\ test = "team_policy"
    /\ N >= 2
    /\ rank >= 3
    /\ team_size >= 2
    /\ hostpc = 4
    /\ passed
    /\ \A i \in 0..(span(Extents) - 1) : B[i] = i

\* C2: after a scalar fill of every slice of B (team-scoped or unscoped),
\* every element of B equals fill_value and the sum of B equals
\* fill_value * N^rank, which is what check_sum tests.
C2_FillKernelsFillEveryElement ==
    (RankTest /\ Completed(FillKernels)) =>
        /\ \A i \in 0..(span(Extents) - 1) : B[i] = fill_value
        /\ SumSeq([i \in 1..span(Extents) |-> B[i - 1]])
               = fill_value * Pow(N, rank)
        /\ check_sum
        /\ passed

\* A fill kernel has completed on a view with more than one slice
C2_Witness ==
    /\ RankTest
    /\ N >= 2
    /\ Stmt = "done"
    /\ passed
    /\ \A i \in 0..(span(Extents) - 1) : B[i] = fill_value

\* Lane l has returned from its i-th call of the running kernel
Returned(l, i) ==
    /\ running
    /\ i <= Len(calls[l])
    /\ lanes[l].pc = "done" \/ lanes[l].k > i

\* Element off of the view dstv was written by a lane of team lid executing
\* the team-scoped call `name`
WrittenByTeamCall(dstv, off, lid, name) ==
    \E w \in writers[dstv][off] :
        /\ w[1] = lid
        /\ calls[<<w[1], w[2]>>][w[3]].scope = "team"
        /\ calls[<<w[1], w[2]>>][w[3]].name = name

\* C3: a team-scoped copy or fill returns only after the team barrier: in
\* every state in which some lane has returned from the call, every element
\* of dst (the elements assigned to other lanes included) has been written
\* by that call; in the rank tests the element then holds the copied or
\* filled value.
C3_TeamCallReturnsAfterAllWrites ==
    \A l \in LaneIds : \A i \in 1..Len(calls[l]) :
        (calls[l][i].scope = "team" /\ Returned(l, i)) =>
            \A off \in Range(calls[l][i].whole) :
                /\ WrittenByTeamCall(calls[l][i].dstv, off, l[1],
                                     calls[l][i].name)
                /\ RankTest =>
                      B[off] = IF calls[l][i].srcv = "scalar"
                               THEN calls[l][i].value ELSE A[off]

\* A lane has returned from the team-scoped copy while a sibling lane that
\* wrote part of dst is still inside the call
C3_Witness ==
    /\ running
    /\ Stmt = "test_local_deepcopy"
    /\ \E l1 \in LaneIds, l2 \in LaneIds :
          /\ l1[1] = l2[1]
          /\ l1 # l2
          /\ lanes[l1].pc = "done"
          /\ lanes[l2].pc = "call"
          /\ Len(calls[l2][1].dst) > 0

ScratchDone == test = "scratch" /\ Completed({"DeepCopyScratchFunctor"})

\* C4: scratch round trip: every work item i fills scratch row i with i in
\* the TeamThreadRange loop, the team copies scratch column 0 into
\* check_view_1 right after the loop, and after the kernel
\* check_view_1[i] = i for every i, for every team size and every split of
\* the fills and of the copy over the lanes.
C4_ScratchRoundTrip ==
    ScratchDone => \A i \in 0..(N - 1) : check_view_1[i] = i

\* C5: after the team-scoped fill of the scratch view with 6.0 and the
\* second team-scoped copy of scratch column 0, every entry of check_view_2
\* is 6.0; none holds a lane index left by the per-lane fills.
C5_SecondCopySeesTeamFill ==
    ScratchDone => \A i \in 0..(N - 1) : check_view_2[i] = scratch_fill

\* The scratch kernel has completed on a team of several lanes whose loop
\* and copy are split differently, and check_view_2 holds 6.0 throughout
C5_Witness ==
    /\ ScratchDone
    /\ N >= 3
    /\ team_size >= 2
    /\ thread_range # vector_range
    /\ \A i \in 0..(N - 1) : check_view_2[i] = scratch_fill

\* The invocation a lane's i-th call belongs to: a team-scoped call is one
\* invocation per team, any other call is an invocation of its own
Invocation(l, i) ==
    IF calls[l][i].scope = "team"
    THEN <<l[1], calls[l][i].name>>
    ELSE <<l[1], l[2], i>>

\* C6: no data race on the destination: in every copy and fill kernel of
\* the rank tests two different invocations (different league rank or
\* range index, or different chunks of one team) have disjoint destination
\* elements, and no element of B is written by two invocations.
C6_InvocationsWriteDisjointElements ==
    (RankTest /\ running) =>
        /\ \A l1 \in LaneIds, l2 \in LaneIds :
              \A i1 \in 1..Len(calls[l1]), i2 \in 1..Len(calls[l2]) :
                  Invocation(l1, i1) # Invocation(l2, i2) =>
                      Range(calls[l1][i1].whole)
                          \cap Range(calls[l2][i2].whole) = {}
        /\ \A off \in DOMAIN B :
              Cardinality({Invocation(<<w[1], w[2]>>, w[3]) :
                              w \in writers.B[off]}) <= 1

\* The thread-scoped kernel has completed: several teams of several lanes
\* have written every element of B, each element by one invocation
C6_Witness ==
    /\ running
    /\ AllDone
    /\ Stmt = "test_local_deepcopy_thread"
    /\ N >= 2
    /\ team_size >= 2
    /\ rank >= 3
    /\ \A off \in DOMAIN B : Cardinality(writers.B[off]) = 1

\* The (lane, call, position) triples of team lid that process destination
\* element off in the team-scoped call `name`
Processors(lid, name, off) ==
    UNION { UNION { { <<l2, i2, j>> :
                        j \in { q \in 1..Len(calls[l2][i2].dst) :
                                   calls[l2][i2].dst[q] = off } } :
                    i2 \in { q \in 1..Len(calls[l2]) :
                                /\ calls[l2][q].scope = "team"
                                /\ calls[l2][q].name = name } } :
            l2 \in { q \in LaneIds : q[1] = lid } }

\* C7: a team-scoped copy or fill splits the flat destination index space
\* over the lanes so that every destination element is processed by exactly
\* one lane, exactly once, for every team size and destination size; once a
\* lane has returned, every element has been written by exactly one lane.
C7_TeamSplitCoversEachIndexOnce ==
    \A l \in LaneIds : \A i \in 1..Len(calls[l]) :
        calls[l][i].scope = "team" =>
            /\ Range(calls[l][i].dst) \subseteq Range(calls[l][i].whole)
            /\ \A off \in Range(calls[l][i].whole) :
                  /\ Cardinality(Processors(l[1], calls[l][i].name, off)) = 1
                  /\ Returned(l, i) =>
                        Cardinality({ w \in writers[calls[l][i].dstv][off] :
                            /\ w[1] = l[1]
                            /\ Invocation(<<w[1], w[2]>>, w[3])
                                   = Invocation(l, i) }) = 1

\* A team-scoped copy has completed whose destination size is not a
\* multiple of the team size and where some lane had no element to process
C7_Witness ==
    /\ running
    /\ AllDone
    /\ Stmt = "test_local_deepcopy"
    /\ \E l \in LaneIds :
          /\ Len(calls[l][1].whole) % team_size # 0
          /\ Len(calls[l][1].dst) = 0
    /\ \E l \in LaneIds : Len(calls[l][1].dst) >= 2

\* C8: a thread-scoped copy does its whole walk on the calling lane, with
\* no barrier and no help from sibling lanes: once the call has returned
\* on a lane, every element of its dst equals the corresponding src element
\* and was written by that call alone, whatever the other lanes have done.
C8_ThreadCopyCompleteOnReturn ==
    \A l \in LaneIds : \A i \in 1..Len(calls[l]) :
        (calls[l][i].scope = "thread" /\ Returned(l, i)) =>
            \A j \in 1..Len(calls[l][i].dst) :
                /\ B[calls[l][i].dst[j]] = A[calls[l][i].src[j]]
                /\ writers.B[calls[l][i].dst[j]] = {<<l[1], l[2], i>>}

\* A lane has returned from a thread-scoped copy while a sibling lane of
\* its team has not written anything yet
C8_Witness ==
    /\ running
    /\ Stmt = "test_local_deepcopy_thread"
    /\ \E l1 \in LaneIds, l2 \in LaneIds :
          /\ l1[1] = l2[1]
          /\ l1 # l2
          /\ Returned(l1, 1)
          /\ Len(calls[l1][1].dst) >= 2
          /\ lanes[l2] = [pc |-> "call", k |-> 1, pos |-> 0]
          /\ Len(calls[l2][1].dst) >= 2

InCall(l) == l \in LaneIds /\ lanes[l].pc = "call"

\* Lane l waits at the trailing barrier of a team-scoped call for a sibling
AtBarrier(l) ==
    /\ InCall(l)
    /\ Cur(l).scope = "team"
    /\ lanes[l].pos = Len(Cur(l).dst)
    /\ ~team_barrier(l, Cur(l).name)

\* C9: the only blocking point is the team barrier: a lane inside a call
\* can always take its next step unless it waits at the barrier of a
\* team-scoped call for a sibling lane; and, every lane being scheduled
\* fairly, a launched kernel of the tests (all of whose copies are
\* shape-compatible) is eventually finished by all of its lanes at once, so
\* that every team-scoped call returns on every lane and the scratch kernel
\* with its three team-scoped calls terminates on every lane.
C9_OnlyBarrierBlocksAndLanesFinish ==
    /\ [](\A l \in AllLaneIds :
            (InCall(l) /\ ~AtBarrier(l)) => ENABLED LaneStep(l))
    /\ (running /\ shapes = "same") ~> AllDone

\* In the scratch kernel a lane waits at the barrier of the second
\* team-scoped call (the fill) for a sibling that is still copying
C9_Witness ==
    /\ test = "scratch"
    /\ running
    /\ \E l1 \in LaneIds, l2 \in LaneIds :
          /\ AtBarrier(l1)
          /\ Cur(l1).name = "fill"
          /\ InCall(l2)
          /\ Cur(l2).name = "fill"
          /\ lanes[l2].pos < Len(Cur(l2).dst)

\* Call c is a copy whose dst and src differ in rank or in some extent
Mismatched(c) == c.srcv # "scalar" /\ c.dext # c.sext

C11_SourceViewIsReadOnly ==
    /\ [](RankTest =>
            /\ \A i \in 0..(span(Extents) - 1) : A[i] = i
            /\ \A l \in LaneIds : \A k \in 1..Len(calls[l]) :
                  calls[l][k].dstv # "A")
    /\ [][RankTest => A' = A]_vars

\* run_team_policy has run to its end on a view of several slices: three
\* kernels wrote B and two resets cleared it, and A still holds view_init
C11_Witness ==
    /\ test = "team_policy"
    /\ Stmt = "done"
    /\ N >= 2
    /\ rank >= 3
    /\ B[span(Extents) - 1] = fill_value
    /\ A[span(Extents) - 1] = span(Extents) - 1

\* Lane l of the scratch kernel is inside the first team-scoped copy and
\* has an element left to copy
InFirstCopy(l) ==
    /\ test = "scratch"
    /\ running
    /\ lanes[l].pc = "call"
    /\ Cur(l).name = "copy_1"
    /\ lanes[l].pos < Len(Cur(l).src)

\* Scratch element off has been written by an unscoped fill of the
\* TeamThreadRange loop
RowFilled(off) ==
    \E w \in writers.shview[off] :
        calls[<<w[1], w[2]>>][w[3]].scope = "unscoped"

\* C12: in the scratch kernel no scratch element is read before it has
\* been written: whenever a lane executing the first team-scoped copy
\* reads scratch element (i,0), the unscoped fill of row i (by whichever
\* lane the TeamThreadRange loop gave it to) has already been done.
C12_ScratchReadAfterRowFill ==
    [][\A l \in LaneIds :
          (InFirstCopy(l) /\ lanes'[l].pos = lanes[l].pos + 1) =>
              RowFilled(Cur(l).src[lanes[l].pos + 1])]_vars

\* The indices [start, stop) of chunk idx
Chunk(n, thread_number, idx) ==
    chunk_start(n, thread_number, idx)
        .. (chunk_stop(n, thread_number, idx) - 1)

\* The (lane, call) pairs of team lid whose destination holds element off
ChunksCopying(lid, off) ==
    UNION { { <<l, k>> : k \in { q \in 1..Len(calls[l]) :
                                    off \in Range(calls[l][q].dst) } } :
            l \in { q \in LaneIds : q[1] = lid } }

\* With league size n the chunks are pairwise disjoint and cover [0, n)
ChunksPartitionUpToBounds ==
    \A n \in 1..MaxChunkN :
        LET batches == 0..(number_of_batches(n, n) - 1)
        IN  /\ \A i1 \in batches, i2 \in batches :
                  i1 # i2 => Chunk(n, n, i1) \cap Chunk(n, n, i2) = {}
            /\ UNION { Chunk(n, n, idx) : idx \in batches } = 0..(n - 1)

\* C13: in the thread-scoped test, for every N >= 1 with league size N,
\* the chunks [idx*unitsOfWork, clamp((idx+1)*unitsOfWork, 0, N)) for idx
\* in [0, numberOfBatches) are pairwise disjoint and their union is exactly
\* [0, N); hence every element of slice lid is copied by exactly one chunk
\* of the running kernel.
C13_ChunksPartitionTheExtent ==
    /\ ChunksPartitionUpToBounds
    /\ (running /\ Stmt = "test_local_deepcopy_thread") =>
          \A lid \in 0..(league_size - 1) :
              \A off \in Range(ElementSpaceWalk(
                                  extract_subview(Extents, layout, lid, ALL))) :
                  Cardinality(ChunksCopying(lid, off)) = 1

\* The thread-scoped kernel has completed on a column-major matrix whose
\* slices are split into as many chunks as the extent, held by several
\* lanes of each team
C13_Witness ==
    /\ running
    /\ AllDone
    /\ Stmt = "test_local_deepcopy_thread"
    /\ layout = "LayoutLeft"
    /\ rank = 2
    /\ N >= 2
    /\ numberOfBatches = N
    /\ \A l \in LaneIds : l[2] < N => Len(calls[l]) = 1
    /\ \A i \in 0..(span(Extents) - 1) : B[i] = A[i]

\* For some extent n with league size n the clamp lowers the computed
\* upper bound of a chunk, which is then shorter than unitsOfWork
ClampLowersUpToBounds ==
    \E n \in 1..MaxChunkN :
        \E idx \in 0..(number_of_batches(n, n) - 1) :
            /\ chunk_stop(n, n, idx) < chunk_stop_computed(n, n, idx)
            /\ Cardinality(Chunk(n, n, idx)) < units_of_work(n, n)

\* For every extent and league size the clamp leaves the computed upper
\* bound of every chunk as it is, and every chunk has unitsOfWork elements
ClampIsIdentityUpToBounds ==
    \A n \in 1..MaxChunkN, thread_number \in 1..MaxChunkN :
        \A idx \in 0..(number_of_batches(n, thread_number) - 1) :
            /\ chunk_stop(n, thread_number, idx)
                   = clamp(chunk_stop_computed(n, thread_number, idx), 0, n)
            /\ chunk_stop(n, thread_number, idx)
                   = chunk_stop_computed(n, thread_number, idx)
            /\ Cardinality(Chunk(n, thread_number, idx))
                   = units_of_work(n, thread_number)

\* C14 (as stated): in the thread-scoped test there is an extent N and a
\* chunk idx for which the clamp lowers the computed upper bound
\* (idx+1)*unitsOfWork, giving a final chunk with fewer than unitsOfWork
\* elements.
C14_LastChunkMayBeSmaller ==
    \/ ClampLowersUpToBounds
    \/ \E idx \in 0..(numberOfBatches - 1) :
          /\ test = "team_policy"
          /\ chunk_stop(N, league_size, idx)
                 < chunk_stop_computed(N, league_size, idx)
          /\ Cardinality(Chunk(N, league_size, idx)) < unitsOfWork

\* C14 (amended): the computed upper bound is passed through the clamp to
\* [0, N], but the clamp never lowers it: for every extent and every league
\* size, each chunk idx < numberOfBatches has (idx+1)*unitsOfWork <= N and
\* exactly unitsOfWork elements; with league size N, as the test dispatches,
\* unitsOfWork is 1 and every chunk of the running kernel is one index wide.
C14_ClampNeverLowersStop ==
    /\ ClampIsIdentityUpToBounds
    /\ (running /\ Stmt = "test_local_deepcopy_thread") =>
          /\ unitsOfWork = 1
          /\ \A l \in LaneIds : \A k \in 1..Len(calls[l]) :
                calls[l][k].dext[1] = unitsOfWork

\* The thread-scoped kernel is running and the last chunk of the last
\* slice has been copied while other chunks are still outstanding
C14_Witness ==
    /\ running
    /\ ~AllDone
    /\ Stmt = "test_local_deepcopy_thread"
    /\ N >= 2
    /\ B[span(Extents) - 1] = span(Extents) - 1
    /\ B[0] = 0 /\ B[1] = 0

\* The index tuple of A and B stored at flat offset off
IndexOf(off) ==
    CHOOSE idx \in [1..rank -> 0..(N - 1)] :
        offset(layout, Extents, idx) = off

\* Element off of B lies in the destination the k-th call of lane l was
\* given: slice l[1], and for a chunk of the thread-scoped kernel second
\* index in [start, stop)
InOwnDestination(l, k, off) ==
    /\ IndexOf(off)[1] = l[1]
    /\ calls[l][k].scope = "thread" =>
          IndexOf(off)[2] \in
              Chunk(N, league_size, TeamThreadRange(numberOfBatches, l[2])[k])

\* C15: a copy or fill invocation writes only elements inside its
\* destination subview: every write to B recorded for an invocation on
\* slice lid (or on chunk [start, stop) of slice lid) is to an element of
\* that slice (or chunk), and a step of a lane leaves every element of B
\* outside the slice or chunk of its current call unchanged, for both
\* layouts and every rank.
C15_WritesStayInsideDestination ==
    /\ []((RankTest /\ running) =>
            \A off \in DOMAIN B : \A w \in writers.B[off] :
                InOwnDestination(<<w[1], w[2]>>, w[3], off))
    /\ [][(RankTest /\ running) =>
            \A l \in LaneIds :
                (lanes[l].pc = "call" /\ lanes'[l].pos = lanes[l].pos + 1) =>
                    \A off \in DOMAIN B :
                        \/ B'[off] = B[off]
                        \/ InOwnDestination(l, lanes[l].k, off)]_vars

\* The unscoped fill kernel is running on a column-major view of rank 3:
\* slice 0 is filled throughout and slice 1, interleaved with it in
\* storage, is untouched
C15_Witness ==
    /\ running
    /\ Stmt = "test_local_deepcopy_scalar_range"
    /\ layout = "LayoutLeft"
    /\ rank >= 3
    /\ N >= 2
    /\ lanes[<<0, 0>>].pc = "done"
    /\ lanes[<<1, 0>>].pos = 0
    /\ \A off \in DOMAIN B :
          B[off] = IF IndexOf(off)[1] = 0 THEN fill_value ELSE 0

\* The offsets of all index tuples of a view with `r` extents n
Offsets(lay, n, r) ==
    { offset(lay, make_array(n, r), idx) : idx \in [1..r -> 0..(n - 1)] }

\* The offsets of the subview that fixes the leading index to lid
SliceOffsets(lay, n, r, lid) ==
    Range(ElementSpaceWalk(extract_subview(make_array(n, r), lay, lid, ALL)))

\* offset is injective on [0,n)^r and stays inside the span [0, n^r), and
\* the n leading-index subviews split the span
LayoutMappingSound(lay, n, r) ==
    /\ Offsets(lay, n, r) \subseteq 0..(Pow(n, r) - 1)
    /\ Cardinality(Offsets(lay, n, r)) = Pow(n, r)
    /\ \A i1 \in [1..r -> 0..(n - 1)], i2 \in [1..r -> 0..(n - 1)] :
          offset(lay, make_array(n, r), i1) = offset(lay, make_array(n, r), i2)
              => i1 = i2
    /\ r >= 2 =>
          /\ \A lid1 \in 0..(n - 1), lid2 \in 0..(n - 1) :
                lid1 # lid2 => SliceOffsets(lay, n, r, lid1)
                                   \cap SliceOffsets(lay, n, r, lid2) = {}
          /\ UNION { SliceOffsets(lay, n, r, lid) : lid \in 0..(n - 1) }
                 = 0..(Pow(n, r) - 1)

LayoutMappingSoundUpToBounds ==
    \A lay \in Layouts : \A n \in 1..MaxOffsetN : \A r \in 1..MaxRank :
        LayoutMappingSound(lay, n, r)

\* C16: for every rank R, extent N and both layouts the linear offset of a
\* view with all extents N is injective over [0,N)^R and lies in [0, N^R);
\* the N subviews fixing the leading index to lid in [0,N) have pairwise
\* disjoint offset sets whose union is the whole span.  Checked for every
\* extent and rank up to the bounds and for the views A and B of each test.
C16_OffsetInjectiveSlicesPartitionSpan ==
    /\ LayoutMappingSoundUpToBounds
    /\ RankTest =>
          /\ N \in 1..MaxOffsetN
          /\ rank \in 1..MaxRank
          /\ DOMAIN A = 0..(Pow(N, rank) - 1)
          /\ Offsets(layout, N, rank) = DOMAIN B

\* The unscoped copy kernel has completed on a row-major view of rank 3
\* and extent 2: every slice has been copied through the mapping
C16_Witness ==
    /\ running
    /\ AllDone
    /\ Stmt = "test_local_deepcopy_range"
    /\ layout = "LayoutRight"
    /\ rank = 3
    /\ N = 2
    /\ \A lid \in 0..(N - 1) :
          \A off \in SliceOffsets(layout, N, rank, lid) : B[off] = off

\* Scratch element off has been written by the team-scoped fill
TeamFilled(off) ==
    \E w \in writers.shview[off] :
        calls[<<w[1], w[2]>>][w[3]].scope = "team"

\* The (lane, call, position) triples of the first team-scoped copy that
\* read scratch element off
FirstCopyReaders(off) ==
    UNION { UNION { { <<l, i, j>> :
                        j \in { q \in 1..Len(calls[l][i].src) :
                                   calls[l][i].src[q] = off } } :
                    i \in { q \in 1..Len(calls[l]) :
                                calls[l][q].name = "copy_1" } } :
            l \in LaneIds }

\* The read at position j of call i of lane l has been done
ReadDone(l, i, j) ==
    \/ lanes[l].pc = "done"
    \/ lanes[l].k > i
    \/ lanes[l].k = i /\ lanes[l].pos >= j

\* C17: write-after-read ordering in the scratch kernel: no lane writes
\* 6.0 to a scratch element by the team-scoped fill before the first
\* team-scoped copy has read that element into check_view_1; when the
\* first fill write happens every lane has done all its reads of the first
\* copy and has arrived at its trailing barrier, and check_view_1 never
\* receives the fill value.
C17_FillWritesAfterFirstCopyReads ==
    /\ (test = "scratch" /\ running) =>
          \A off \in DOMAIN shview :
              TeamFilled(off) =>
                  /\ FirstCopyReaders(off) # {}
                  /\ \A t \in FirstCopyReaders(off) :
                        ReadDone(t[1], t[2], t[3])
                  /\ \A l \in LaneIds : Arrived(l, "copy_1")
    /\ test = "scratch" =>
          \A i \in DOMAIN check_view_1 : check_view_1[i] # scratch_fill

\* A lane has written 6.0 to a scratch element while a sibling lane still
\* waits at the trailing barrier of the first copy, all reads being done
C17_Witness ==
    /\ test = "scratch"
    /\ running
    /\ \E off \in DOMAIN shview : TeamFilled(off) /\ shview[off] = scratch_fill
    /\ \E l \in LaneIds :
          /\ lanes[l].pc = "call"
          /\ Cur(l).name = "copy_1"
          /\ Len(Cur(l).src) >= 1
          /\ lanes[l].pos = Len(Cur(l).src)

\* B has just been cleared and no kernel has been launched since: the host
\* is past a reset_b
AfterReset ==
    /\ RankTest
    /\ ~running
    /\ hostpc > 1
    /\ hostpc - 1 <= Len(Program)
    /\ Program[hostpc - 1] = "reset_b"

\* Element i of B has not been written by the running kernel
Unwritten(i) == writers.B[i] = {}

\* C18: sensitivity of the equality oracle: after reset_b and before the
\* next kernel B.data()[i] # A.data()[i] for every flat index i >= 1
\* while B.data()[0] = A.data()[0] = 0; hence, evaluated on the state a
\* copy kernel has reached, view_check_equals(A, B) is false as long as an
\* element with flat index >= 1 is unwritten, and true when flat index 0
\* is the only unwritten element.
C18_OracleBlindToFlatIndexZero ==
    /\ AfterReset =>
          /\ \A i \in 1..(span(Extents) - 1) : B[i] # A[i]
          /\ B[0] = A[0]
          /\ A[0] = 0
    /\ (RankTest /\ running /\ Stmt \in CopyKernels) =>
          /\ (\E i \in 1..(span(Extents) - 1) : Unwritten(i))
                => ~view_check_equals(A, B)
          /\ (\A i \in 1..(span(Extents) - 1) : ~Unwritten(i))
                => view_check_equals(A, B)

\* The team-scoped copy kernel that follows reset_b has written every
\* element of B but flat index 0, and view_check_equals(A, B) already holds
C18_Witness ==
    /\ running
    /\ Stmt = "test_local_deepcopy"
    /\ N >= 2
    /\ team_size >= 2
    /\ Unwritten(0)
    /\ \A i \in 1..(span(Extents) - 1) : ~Unwritten(i)
    /\ view_check_equals(A, B)

====
